---------------------------- MODULE Spec2Model ----------------------------
(* Model of the broadcast subsystem of bot.py: the /broadcast handler      *)
(* (require_owner + broadcast_cmd), the background thread _do_broadcast,   *)
(* save_user, the users and broadcasts tables and the single DB_LOCK.      *)
(*                                                                         *)
(* Threads: one dispatcher thread runs the interactive handlers one after  *)
(* another (no handler is registered with run_async), and every accepted   *)
(* /broadcast starts one daemon thread running _do_broadcast.              *)
EXTENDS Integers, Sequences, FiniteSets, TLC

(***************************************************************************)
(* Bounds of the model.                                                    *)
(***************************************************************************)
MaxUser == 2      \* user ids are 1..MaxUser
MaxJobs == 2      \* at most this many rows are inserted into broadcasts
MaxSegs == 1      \* a text has at most this many runs of equal characters

(***************************************************************************)
(* Program constants.                                                      *)
(***************************************************************************)
\* OWNER_ID (8116152355 in the source) is one fixed user id; the model
\* names it 1, the identity of the id is all the code uses.
OWNER_ID == 1
\* the slice bound of btext[:4000]
TextCap == 4000

UserIds == 1..MaxUser
NoUser == 0       \* update.effective_user is None

(***************************************************************************)
(* Texts.  A Python str is modelled run-length encoded: a sequence of      *)
(* segments [c, n], n copies of a character of class c, where class "s"    *)
(* is a whitespace character and class "a" a non-whitespace one.  Adjacent *)
(* segments have different classes.  <<>> is the empty string, and also    *)
(* stands for None where the code only tests truthiness.                   *)
(***************************************************************************)
SegLens(c) == IF c = "s" THEN {1} ELSE {1, TextCap + 1}

Seg == { [c |-> "s", n |-> 1] } \cup { [c |-> "a", n |-> k] : k \in SegLens("a") }

IsText(t) == \A i \in 1..(Len(t) - 1) : t[i].c # t[i + 1].c

Texts == UNION { { t \in [1..k -> Seg] : IsText(t) } : k \in 0..MaxSegs }

\* bool(t): a str (or None) is true iff it is non-empty
Truthy(t) == t # <<>>

\* a or b, on str/None operands
Or(a, b) == IF Truthy(a) THEN a ELSE b

RECURSIVE Slice(_, _)
\* t[:cap]
Slice(t, cap) ==
    IF t = <<>> \/ cap <= 0 THEN <<>>
    ELSE IF t[1].n >= cap THEN << [c |-> t[1].c, n |-> cap] >>
    ELSE <<t[1]>> \o Slice(Tail(t), cap - t[1].n)

\* t.split(): the maximal non-whitespace runs of t, each a text of its own
Split(t) ==
    LET words == SelectSeq(t, LAMBDA g : g.c = "a")
    IN  [i \in 1..Len(words) |-> << words[i] >>]

RECURSIVE Join(_)
\* " ".join(args), for args as Split yields them
Join(args) ==
    IF args = <<>> THEN <<>>
    ELSE IF Len(args) = 1 THEN args[1]
    ELSE args[1] \o << [c |-> "s", n |-> 1] >> \o Join(Tail(args))

(***************************************************************************)
(* Updates.  An update carrying the /broadcast command: the replied-to     *)
(* message's text and caption, and the text after the command name, from   *)
(* which the framework computes context.args as text.split()[1:].  The     *)
(* sender is update.effective_user.                                        *)
(***************************************************************************)
\* rtext and rcaption are reply_to_message.text and .caption; a message that
\* replies to nothing, like a replied-to message without text or caption,
\* has both <<>>: line 520 takes the same branch for the two.
Updates == [ rtext : Texts, rcaption : Texts, tail : Texts ]

Senders == UserIds \cup {NoUser}

Args(upd) == Split(upd.tail)

\* broadcast_cmd, lines 520-526: which branch supplies the text
HasReplyText(upd) == Truthy(Or(upd.rtext, upd.rcaption))

HasText(upd) == HasReplyText(upd) \/ Args(upd) # <<>>

BText(upd) ==
    IF HasReplyText(upd) THEN Or(Or(upd.rtext, upd.rcaption), <<>>)
    ELSE Join(Args(upd))

\* require_owner, line 369
Authorized(user) == user # NoUser /\ user = OWNER_ID

(***************************************************************************)
(* State.                                                                  *)
(***************************************************************************)
VARIABLES
    users,       \* table users: the set of user_id keys
    broadcasts,  \* table broadcasts: row id i is broadcasts[i]
    lock,        \* holder of DB_LOCK
    dpc,         \* position of the dispatcher thread
    duser,       \* the user of the update being handled: save_user's user,
                 \* require_owner's and broadcast_cmd's update.effective_user
    btext,       \* broadcast_cmd: local btext
    bid,         \* broadcast_cmd: local bid
    acked,       \* job ids carried by "Broadcast started" replies sent
    runs         \* the _do_broadcast threads, in the order they were started

vars == << users, broadcasts, lock, dpc, duser, btext, bid, acked, runs >>

Free == << "free", 0 >>
Disp == << "disp", 0 >>
RunThread(t) == << "run", t >>

Threads == DOMAIN runs

RECURSIVE Ascending(_)
\* SELECT user_id FROM users: a scan of the table, which SQLite walks in the
\* order of its INTEGER PRIMARY KEY
Ascending(S) ==
    IF S = {} THEN <<>>
    ELSE LET m == CHOOSE x \in S : \A y \in S : x <= y
         IN  <<m>> \o Ascending(S \ {m})

\* a row of broadcasts (from_user, text, sent_count) and the locals of a
\* _do_broadcast thread (bid, text, rows, sent, the loop position idx), with
\* what the properties are stated on: nwrites, the log of the sends and
\* sleeps done, and snap, the users table at the SELECT
IsStr(t) ==
    /\ IsText(t)
    /\ \A i \in DOMAIN t : t[i].c \in {"s", "a"} /\ t[i].n \in 1..(TextCap + 1)

IsRow(r) ==
    /\ r.from_user \in UserIds
    /\ IsStr(r.text)
    /\ r.sent_count \in 0..MaxUser
    /\ r.nwrites \in 0..MaxUser

RunPcs ==
    { "start", "snap", "send", "sleep", "fin_wait", "fin", "done", "crashed",
      "killed" }

DispPcs ==
    { "idle", "save", "denied", "insert", "reply", "start", "return", "error",
      "dead" }

TypeOK ==
    /\ users \subseteq UserIds
    /\ Len(broadcasts) <= MaxJobs
    /\ \A i \in DOMAIN broadcasts : IsRow(broadcasts[i])
    /\ lock \in {Free, Disp} \cup { RunThread(t) : t \in Threads }
    /\ dpc \in DispPcs
    /\ duser \in UserIds \cup {NoUser}
    /\ btext \in Texts
    /\ bid \in 0..MaxJobs
    /\ acked \subseteq 1..MaxJobs
    /\ Len(runs) <= MaxJobs
    /\ \A t \in Threads :
          /\ runs[t].bid \in 0..MaxJobs
          /\ runs[t].text \in Texts
          /\ runs[t].pc \in RunPcs
          /\ runs[t].snap \subseteq UserIds
          /\ runs[t].idx \in 0..Len(runs[t].rows)
          /\ runs[t].sent \in 0..MaxUser
          /\ Len(runs[t].log) <= 2 * MaxUser

Init ==
    /\ users = {}
    /\ broadcasts = <<>>
    /\ lock = Free
    /\ dpc = "idle"
    /\ duser = NoUser
    /\ btext = <<>>
    /\ bid = 0
    /\ acked = {}
    /\ runs = <<>>


(***************************************************************************)
(* Interactive handlers, run by the dispatcher thread.                     *)
(***************************************************************************)

\* save_user(user), lines 123-126, called by start, myid_cmd, whoami, ...:
\* a user that is None returns at once; otherwise DB_LOCK is acquired
SaveUserBegin(u) ==
    /\ dpc = "idle"
    /\ u # NoUser
    /\ lock = Free
    /\ lock' = Disp
    /\ dpc' = "save"
    /\ duser' = u
    /\ UNCHANGED << users, broadcasts, btext, bid, acked, runs >>

\* SaveUserWrite that returns without releasing DB_LOCK
SaveUserWrite_NoRelease ==
    /\ dpc = "save"
    /\ users' = users \cup {duser}
    /\ dpc' = "idle"
    /\ duser' = NoUser
    /\ UNCHANGED << broadcasts, lock, btext, bid, acked, runs >>

\* save_user, lines 127-139: INSERT OR REPLACE of the row, commit, release
SaveUserWrite ==
    /\ dpc = "save"
    /\ users' = users \cup {duser}
    /\ lock' = Free
    /\ dpc' = "idle"
    /\ duser' = NoUser
    /\ UNCHANGED << broadcasts, btext, bid, acked, runs >>

\* require_owner, lines 367-369: the sender is not the owner (or there is
\* none), broadcast_cmd is not called
BroadcastUnauthorized(user) ==
    /\ dpc = "idle"
    /\ ~Authorized(user)
    /\ dpc' = "denied"
    /\ duser' = user
    /\ UNCHANGED << users, broadcasts, lock, btext, bid, acked, runs >>

\* require_owner, lines 370-371: the "not authorized" reply, and return
DeniedReply ==
    /\ dpc = "denied"
    /\ dpc' = "idle"
    /\ duser' = NoUser
    /\ UNCHANGED << users, broadcasts, lock, btext, bid, acked, runs >>

\* broadcast_cmd, lines 516-526: no replied-to text and no args, usage reply
BroadcastUsage(user, upd) ==
    /\ dpc = "idle"
    /\ Authorized(user)
    /\ ~HasText(upd)
    /\ UNCHANGED vars

\* BroadcastBegin without the require_owner decorator: any sender passes
BroadcastBegin_NoAuth(user, upd) ==
    /\ dpc = "idle"
    /\ Len(broadcasts) < MaxJobs
    /\ HasText(upd)
    /\ lock = Free
    /\ lock' = Disp
    /\ dpc' = "insert"
    /\ duser' = user
    /\ btext' = BText(upd)
    /\ UNCHANGED << users, broadcasts, bid, acked, runs >>

\* broadcast_cmd, lines 516-528: btext is chosen and DB_LOCK is acquired
BroadcastBegin(user, upd) ==
    /\ dpc = "idle"
    /\ Len(broadcasts) < MaxJobs
    /\ Authorized(user)
    /\ HasText(upd)
    /\ lock = Free
    /\ lock' = Disp
    /\ dpc' = "insert"
    /\ duser' = user
    /\ btext' = BText(upd)
    /\ UNCHANGED << users, broadcasts, bid, acked, runs >>

\* the row broadcast_cmd inserts, line 530 (nwrites counts the UPDATEs of the
\* row's sent_count, for the claims about finalize)
NewRow(user, text) ==
    [ from_user |-> user, text |-> Slice(text, TextCap), sent_count |-> 0,
      nwrites |-> 0 ]

\* InsertRow with cur.lastrowid read before the INSERT is executed
InsertRow_StaleId ==
    /\ dpc = "insert"
    /\ broadcasts' = Append(broadcasts, NewRow(duser, btext))
    /\ bid' = Len(broadcasts)
    /\ lock' = Free
    /\ dpc' = "reply"
    /\ UNCHANGED << users, duser, btext, acked, runs >>

\* broadcast_cmd, lines 529-532: INSERT, bid = cur.lastrowid, commit, release
InsertRow ==
    /\ dpc = "insert"
    /\ broadcasts' = Append(broadcasts, NewRow(duser, btext))
    /\ bid' = Len(broadcasts) + 1
    /\ lock' = Free
    /\ dpc' = "reply"
    /\ UNCHANGED << users, duser, btext, acked, runs >>

\* InsertFail with the exception swallowed: the handler goes on to line 534
InsertFail_Swallow ==
    /\ dpc = "insert"
    /\ lock' = Free
    /\ dpc' = "reply"
    /\ UNCHANGED << users, broadcasts, duser, btext, bid, acked, runs >>

\* broadcast_cmd, lines 528-530: the INSERT raises (store unreachable); the
\* with-block releases DB_LOCK and the exception leaves the handler with
\* bid never assigned
InsertFail ==
    /\ dpc = "insert"
    /\ lock' = Free
    /\ dpc' = "error"
    /\ UNCHANGED << users, broadcasts, duser, btext, bid, acked, runs >>

\* broadcast_cmd, line 534: the acknowledgment is sent
ReplyAck ==
    /\ dpc = "reply"
    /\ acked' = acked \cup {bid}
    /\ dpc' = "start"
    /\ UNCHANGED << users, broadcasts, lock, duser, btext, bid, runs >>

\* broadcast_cmd, line 534: reply_text raises (transport error); the
\* exception leaves the handler before line 536
ReplyFail ==
    /\ dpc = "reply"
    /\ dpc' = "error"
    /\ UNCHANGED << users, broadcasts, lock, duser, btext, bid, acked, runs >>

\* error_handler, lines 560-561: the dispatcher hands the exception that left
\* the handler to the registered error handler, which logs it
ErrorHandler ==
    /\ dpc = "error"
    /\ dpc' = "idle"
    /\ duser' = NoUser
    /\ btext' = <<>>
    /\ bid' = 0
    /\ UNCHANGED << users, broadcasts, lock, acked, runs >>

\* the thread line 536 creates: _do_broadcast(bid, btext, user.id) at its start
NewRun(b, text) ==
    [ bid |-> b, text |-> text, pc |-> "start", rows |-> <<>>, idx |-> 0,
      sent |-> 0, log |-> <<>>, snap |-> {} ]

\* broadcast_cmd, line 536: threading.Thread(...).start()
StartThread ==
    /\ dpc = "start"
    /\ runs' = Append(runs, NewRun(bid, btext))
    /\ dpc' = "return"
    /\ UNCHANGED << users, broadcasts, lock, duser, btext, bid, acked >>

\* broadcast_cmd returns to the dispatcher after line 536
Return ==
    /\ dpc = "return"
    /\ dpc' = "idle"
    /\ duser' = NoUser
    /\ btext' = <<>>
    /\ bid' = 0
    /\ UNCHANGED << users, broadcasts, lock, acked, runs >>

(***************************************************************************)
(* The background thread, _do_broadcast(bid, text, from_user).             *)
(***************************************************************************)

\* the recipient the for-loop of line 546 is at
Recipient(t) == runs[t].rows[runs[t].idx]

\* after the body of the for-loop: the next row, or past the loop to line 553
NextPos(r) ==
    IF r.idx < Len(r.rows)
    THEN [r EXCEPT !.idx = r.idx + 1, !.pc = "send"]
    ELSE [r EXCEPT !.pc = "fin_wait"]

\* _do_broadcast, line 539: with DB_LOCK
SnapshotAcquire(t) ==
    /\ runs[t].pc = "start"
    /\ lock = Free
    /\ lock' = RunThread(t)
    /\ runs' = [runs EXCEPT ![t].pc = "snap"]
    /\ UNCHANGED << users, broadcasts, dpc, duser, btext, bid, acked >>

\* SnapshotRead with the loop inside the with-block: DB_LOCK is kept
SnapshotRead_HoldLock(t) ==
    /\ runs[t].pc = "snap"
    /\ LET rows == Ascending(users)
       IN  runs' = [runs EXCEPT ![t] =
                      [ @ EXCEPT !.rows = rows, !.snap = users, !.sent = 0,
                                 !.idx = IF rows = <<>> THEN 0 ELSE 1,
                                 !.pc = IF rows = <<>> THEN "fin_wait" ELSE "send" ]]
    /\ UNCHANGED << users, broadcasts, lock, dpc, duser, btext, bid, acked >>

\* _do_broadcast, lines 540-546: SELECT user_id FROM users, fetchall, release;
\* sent = 0 and the loop is entered, or skipped when there are no rows
\* (snap records the users table as it is at the read)
SnapshotRead(t) ==
    /\ runs[t].pc = "snap"
    /\ LET rows == Ascending(users)
       IN  runs' = [runs EXCEPT ![t] =
                      [ @ EXCEPT !.rows = rows, !.snap = users, !.sent = 0,
                                 !.idx = IF rows = <<>> THEN 0 ELSE 1,
                                 !.pc = IF rows = <<>> THEN "fin_wait" ELSE "send" ]]
    /\ lock' = Free
    /\ UNCHANGED << users, broadcasts, dpc, duser, btext, bid, acked >>

\* _do_broadcast, lines 539-542: the SELECT raises; the with-block releases
\* DB_LOCK and nothing in _do_broadcast catches the exception
SnapshotFail(t) ==
    /\ runs[t].pc = "snap"
    /\ runs' = [runs EXCEPT ![t].pc = "crashed"]
    /\ lock' = Free
    /\ UNCHANGED << users, broadcasts, dpc, duser, btext, bid, acked >>

\* SendOk without the increment of sent
SendOk_NoCount(t) ==
    /\ runs[t].pc = "send"
    /\ runs' = [runs EXCEPT ![t] =
                   [ @ EXCEPT !.pc = "sleep",
                              !.log = Append(@, [e |-> "ok", u |-> Recipient(t)]) ]]
    /\ UNCHANGED << users, broadcasts, lock, dpc, duser, btext, bid, acked >>

\* SendOk that also writes the running count to the ledger row
SendOk_Progress(t) ==
    /\ runs[t].pc = "send"
    /\ runs' = [runs EXCEPT ![t] =
                   [ @ EXCEPT !.sent = @ + 1, !.pc = "sleep",
                              !.log = Append(@, [e |-> "ok", u |-> Recipient(t)]) ]]
    /\ broadcasts' =
          [ i \in DOMAIN broadcasts |->
              IF i = runs[t].bid
              THEN [ broadcasts[i] EXCEPT !.sent_count = runs[t].sent + 1,
                                          !.nwrites = @ + 1 ]
              ELSE broadcasts[i] ]
    /\ UNCHANGED << users, lock, dpc, duser, btext, bid, acked >>

\* _do_broadcast, lines 547-549: send_message returns, sent += 1
SendOk(t) ==
    /\ runs[t].pc = "send"
    /\ runs' = [runs EXCEPT ![t] =
                   [ @ EXCEPT !.sent = @ + 1, !.pc = "sleep",
                              !.log = Append(@, [e |-> "ok", u |-> Recipient(t)]) ]]
    /\ UNCHANGED << users, broadcasts, lock, dpc, duser, btext, bid, acked >>

\* SendFail that leaves the loop: a failed send aborts the fan-out
SendFail_Abort(t) ==
    /\ runs[t].pc = "send"
    /\ runs' = [runs EXCEPT ![t] =
                   [ @ EXCEPT !.pc = "fin_wait",
                              !.log = Append(@, [e |-> "fail", u |-> Recipient(t)]) ]]
    /\ UNCHANGED << users, broadcasts, lock, dpc, duser, btext, bid, acked >>

\* SendFail with the sleep inside the try block: a failed send skips it
SendFail_NoSleep(t) ==
    /\ runs[t].pc = "send"
    /\ runs' = [runs EXCEPT ![t] =
                   NextPos([ @ EXCEPT !.log = Append(@, [e |-> "fail", u |-> Recipient(t)]) ])]
    /\ UNCHANGED << users, broadcasts, lock, dpc, duser, btext, bid, acked >>

\* SendFail that tries the same recipient again after a failed send
SendFail_Retry(t) ==
    /\ runs[t].pc = "send"
    /\ runs' = [runs EXCEPT ![t] =
                   [ @ EXCEPT !.log = Append(@, [e |-> "fail", u |-> Recipient(t)]) ]]
    /\ UNCHANGED << users, broadcasts, lock, dpc, duser, btext, bid, acked >>

\* _do_broadcast, lines 547-551: send_message raises, the except clause logs
SendFail(t) ==
    /\ runs[t].pc = "send"
    /\ runs' = [runs EXCEPT ![t] =
                   [ @ EXCEPT !.pc = "sleep",
                              !.log = Append(@, [e |-> "fail", u |-> Recipient(t)]) ]]
    /\ UNCHANGED << users, broadcasts, lock, dpc, duser, btext, bid, acked >>

\* Sleep in a loop that reads the users table again on every iteration
Sleep_Reread(t) ==
    /\ runs[t].pc = "sleep"
    /\ runs' = [runs EXCEPT ![t] =
                   NextPos([ @ EXCEPT !.log = Append(@, [e |-> "sleep", u |-> Recipient(t)]),
                                      !.rows = Ascending(users \cup runs[t].snap) ])]
    /\ UNCHANGED << users, broadcasts, lock, dpc, duser, btext, bid, acked >>

\* _do_broadcast, line 552: time.sleep(BROADCAST_DELAY_SEC), then the loop
\* goes to its next row or ends
Sleep(t) ==
    /\ runs[t].pc = "sleep"
    /\ runs' = [runs EXCEPT ![t] =
                   NextPos([ @ EXCEPT !.log = Append(@, [e |-> "sleep", u |-> Recipient(t)]) ])]
    /\ UNCHANGED << users, broadcasts, lock, dpc, duser, btext, bid, acked >>

\* FinalizeAcquire without the with-block: the UPDATE is reached unlocked
FinalizeAcquire_NoLock(t) ==
    /\ runs[t].pc = "fin_wait"
    /\ runs' = [runs EXCEPT ![t].pc = "fin"]
    /\ UNCHANGED << users, broadcasts, lock, dpc, duser, btext, bid, acked >>

\* _do_broadcast, line 553: with DB_LOCK
FinalizeAcquire(t) ==
    /\ runs[t].pc = "fin_wait"
    /\ lock = Free
    /\ lock' = RunThread(t)
    /\ runs' = [runs EXCEPT ![t].pc = "fin"]
    /\ UNCHANGED << users, broadcasts, dpc, duser, btext, bid, acked >>

\* UpdateSentCount without the WHERE clause: every row is set
UpdateSentCount_NoWhere(rows, b, n) ==
    [ i \in DOMAIN rows |-> [ rows[i] EXCEPT !.sent_count = n, !.nwrites = @ + 1 ] ]

\* UPDATE broadcasts SET sent_count = n WHERE id = b
UpdateSentCount(rows, b, n) ==
    [ i \in DOMAIN rows |->
        IF i = b THEN [ rows[i] EXCEPT !.sent_count = n, !.nwrites = @ + 1 ]
        ELSE rows[i] ]

\* FinalizeWrite that stores the number of users now in the table
FinalizeWrite_LiveCount(t) ==
    /\ runs[t].pc = "fin"
    /\ broadcasts' = UpdateSentCount(broadcasts, runs[t].bid, Cardinality(users))
    /\ lock' = Free
    /\ runs' = [runs EXCEPT ![t].pc = "done"]
    /\ UNCHANGED << users, dpc, duser, btext, bid, acked >>

\* _do_broadcast, lines 554-557: the UPDATE, commit, release, log, return
FinalizeWrite(t) ==
    /\ runs[t].pc = "fin"
    /\ broadcasts' = UpdateSentCount(broadcasts, runs[t].bid, runs[t].sent)
    /\ lock' = Free
    /\ runs' = [runs EXCEPT ![t].pc = "done"]
    /\ UNCHANGED << users, dpc, duser, btext, bid, acked >>

\* _do_broadcast, lines 553-556: the UPDATE raises; the with-block releases
\* DB_LOCK and nothing in _do_broadcast catches the exception
FinalizeFail(t) ==
    /\ runs[t].pc = "fin"
    /\ lock' = Free
    /\ runs' = [runs EXCEPT ![t].pc = "crashed"]
    /\ UNCHANGED << users, broadcasts, dpc, duser, btext, bid, acked >>

Next ==
    \/ \E u \in UserIds : SaveUserBegin(u)
    \/ SaveUserWrite
    \/ \E user \in Senders : BroadcastUnauthorized(user)
    \/ DeniedReply
    \/ \E user \in Senders, upd \in Updates : BroadcastUsage(user, upd)
    \/ \E user \in Senders, upd \in Updates : BroadcastBegin(user, upd)
    \/ InsertRow
    \/ InsertFail
    \/ ReplyAck
    \/ ReplyFail
    \/ ErrorHandler
    \/ StartThread
    \/ Return
    \/ \E t \in Threads : SnapshotAcquire(t)
    \/ \E t \in Threads : SnapshotRead(t)
    \/ \E t \in Threads : SnapshotFail(t)
    \/ \E t \in Threads : SendOk(t)
    \/ \E t \in Threads : SendFail(t)
    \/ \E t \in Threads : Sleep(t)
    \/ \E t \in Threads : FinalizeAcquire(t)
    \/ \E t \in Threads : FinalizeWrite(t)
    \/ \E t \in Threads : FinalizeFail(t)

Spec == Init /\ [][Next]_vars

(***************************************************************************)
(* Process termination and restart.  The broadcast threads are daemon      *)
(* threads (line 536): they end with the process, wherever they are.  The  *)
(* tables are in the file botdata.db and outlive the process; what was     *)
(* committed stays.  A new process runs init_db (CREATE TABLE IF NOT       *)
(* EXISTS) and main: it reads no row of broadcasts and starts no thread.   *)
(***************************************************************************)
\* the process ends; a thread that had not ended is killed where it is
Crash ==
    /\ dpc # "dead"
    /\ dpc' = "dead"
    /\ runs' = [ t \in DOMAIN runs |->
                   IF runs[t].pc \in {"done", "crashed", "killed"} THEN runs[t]
                   ELSE [ runs[t] EXCEPT !.pc = "killed" ] ]
    /\ lock' = Free
    /\ duser' = NoUser
    /\ btext' = <<>>
    /\ bid' = 0
    /\ UNCHANGED << users, broadcasts, acked >>

\* init_db and main, lines 61-108 and 564-576: the process is started again
Restart ==
    /\ dpc = "dead"
    /\ dpc' = "idle"
    /\ UNCHANGED << users, broadcasts, lock, duser, btext, bid, acked, runs >>

NextCrash == Next \/ Crash \/ Restart

SpecCrash == Init /\ [][NextCrash]_vars

(***************************************************************************)
(* Scheduling.  The process keeps running (no Crash).  A thread that can   *)
(* take a step that does not wait for DB_LOCK takes it: a store call or a  *)
(* send call returns or raises, time.sleep returns.  A holder of DB_LOCK   *)
(* leaves its with-block, so the lock is released again and again; a       *)
(* thread blocked in "with DB_LOCK" while the lock is released again and   *)
(* again gets it at some release (strong fairness: the lock is free only   *)
(* now and then when other threads keep taking it).                        *)
(***************************************************************************)
\* the steps of thread t that do not wait for DB_LOCK, lines 540-557
RunStep(t) ==
    /\ t \in Threads
    /\ \/ SnapshotRead(t) \/ SnapshotFail(t)
       \/ SendOk(t) \/ SendFail(t)
       \/ Sleep(t)
       \/ FinalizeWrite(t) \/ FinalizeFail(t)

\* the two "with DB_LOCK" of thread t, lines 539 and 553
AcquireStep(t) ==
    /\ t \in Threads
    /\ SnapshotAcquire(t) \/ FinalizeAcquire(t)

\* the dispatcher leaves the with-blocks of save_user and broadcast_cmd
DispRelease == SaveUserWrite \/ InsertRow \/ InsertFail

Fairness ==
    /\ WF_vars(DispRelease)
    /\ \A t \in 1..MaxJobs : WF_vars(RunStep(t)) /\ SF_vars(AcquireStep(t))

SpecLive == Init /\ [][Next]_vars /\ Fairness

(***************************************************************************)
(* Vocabulary of the properties.                                           *)
(***************************************************************************)
\* t without its leading and trailing whitespace (the trimming of the
\* specification; the code never trims)
Strip(t) ==
    LET a == IF t # <<>> /\ t[1].c = "s" THEN Tail(t) ELSE t
    IN  IF a # <<>> /\ a[Len(a)].c = "s" THEN SubSeq(a, 1, Len(a) - 1) ELSE a

\* a text that is empty or only whitespace
Blank(t) == Strip(t) = <<>>

\* the delivery attempts of a run, in order, and what they add up to
Attempts(r) == SelectSeq(r.log, LAMBDA x : x.e # "sleep")
Successes(r) == Len(SelectSeq(r.log, LAMBDA x : x.e = "ok"))
Failures(r) == Len(SelectSeq(r.log, LAMBDA x : x.e = "fail"))
AttemptedUsers(r) == { r.log[i].u : i \in { k \in DOMAIN r.log : r.log[k].e # "sleep" } }
AttemptOrder(r) == [ i \in DOMAIN Attempts(r) |-> Attempts(r)[i].u ]

\* the threads started for ledger row i
RunsOf(i) == { t \in Threads : runs[t].bid = i }

\* the handler is past the INSERT of its row
PastInsert == dpc \in {"reply", "start", "return"}

(***************************************************************************)
(* C1.  A payload that is empty or only whitespace is rejected: no row of  *)
(* broadcasts is inserted for it and no thread is started for it.  Stated  *)
(* on the handler: it is never past its INSERT holding a blank btext.      *)
(* The code tests the replied-to text for truthiness only (line 520), so   *)
(* a replied-to message of whitespace is inserted: TLC refutes this.       *)
(***************************************************************************)
C1_BlankPayloadRejected == PastInsert => ~Blank(btext)

(***************************************************************************)
(* C2 as claimed.  At the step in which broadcast_cmd returns, the row     *)
(* with the handler's bid exists, has sent_count 0 and has not been        *)
(* finalized.  The thread started at line 536 runs concurrently with the   *)
(* handler's return and may already have written the row: TLC refutes it.  *)
(***************************************************************************)
C2_PendingAtReturn ==
    [][ (dpc = "return" /\ dpc' = "idle") =>
           /\ bid \in DOMAIN broadcasts
           /\ broadcasts[bid].sent_count = 0
           /\ broadcasts[bid].nwrites = 0 ]_vars

(***************************************************************************)
(* C2 amended.  At the step in which broadcast_cmd starts the thread, the  *)
(* row with the handler's bid exists with sent_count 0, not finalized, and *)
(* no delivery of that job has been attempted; at the step in which it     *)
(* returns the row still exists, its thread has been started, and the      *)
(* row's count is 0 unless that thread has already finalized it.           *)
(***************************************************************************)
C2_PendingAtThreadStart ==
    [][ /\ (dpc = "start" /\ dpc' = "return") =>
              /\ bid \in DOMAIN broadcasts'
              /\ broadcasts'[bid].sent_count = 0
              /\ broadcasts'[bid].nwrites = 0
              /\ \A t \in DOMAIN runs' : runs'[t].bid = bid => runs'[t].log = <<>>
        /\ (dpc = "return" /\ dpc' = "idle") =>
              /\ bid \in DOMAIN broadcasts
              /\ RunsOf(bid) # {}
              /\ broadcasts[bid].nwrites = 0 => broadcasts[bid].sent_count = 0 ]_vars

\* the handler is about to return while its job's thread has not made a step
C2_Witness ==
    /\ dpc = "return"
    /\ bid \in DOMAIN broadcasts
    /\ broadcasts[bid].sent_count = 0
    /\ \E t \in RunsOf(bid) : runs[t].pc = "start"
    /\ users # {}

(***************************************************************************)
(* C3.  A finished run whose N delivery attempts all succeeded has written *)
(* N to its row (N = 0 included).                                          *)
(***************************************************************************)
C3_AllSucceedCountIsN ==
    \A t \in Threads :
        (runs[t].pc = "done" /\ Failures(runs[t]) = 0) =>
            /\ runs[t].bid \in DOMAIN broadcasts
            /\ broadcasts[runs[t].bid].sent_count = Len(runs[t].rows)

C3_Witness ==
    \E t \in Threads :
        /\ runs[t].pc = "done"
        /\ Failures(runs[t]) = 0
        /\ Len(runs[t].rows) = MaxUser
        /\ broadcasts[runs[t].bid].sent_count = MaxUser

(***************************************************************************)
(* C4.  Failure isolation: a run past its loop has attempted every         *)
(* recipient of its snapshot, in order, whatever failed; a finished run    *)
(* has written the number of successful sends, which is N - 1 when exactly *)
(* one send failed.                                                        *)
(***************************************************************************)
C4_FailureIsolation ==
    \A t \in Threads :
        /\ runs[t].pc \in {"fin_wait", "fin", "done"} =>
              AttemptOrder(runs[t]) = runs[t].rows
        /\ runs[t].pc = "done" =>
              /\ runs[t].bid \in DOMAIN broadcasts
              /\ broadcasts[runs[t].bid].sent_count = Successes(runs[t])
              /\ broadcasts[runs[t].bid].sent_count
                    = Len(runs[t].rows) - Failures(runs[t])

\* the first of two recipients failed, the second was still sent to
C4_Witness ==
    \E t \in Threads :
        /\ runs[t].pc = "done"
        /\ Len(runs[t].rows) >= 2
        /\ Failures(runs[t]) = 1
        /\ runs[t].log[1].e = "fail"
        /\ broadcasts[runs[t].bid].sent_count = Len(runs[t].rows) - 1

(***************************************************************************)
(* C5.  The counter of a run and the count stored in its row never exceed  *)
(* the size of the snapshot the run took, also when users are saved while  *)
(* the run is under way; a row no run has taken a snapshot for holds 0.    *)
(***************************************************************************)
C5_CountAtMostSnapshot ==
    /\ \A t \in Threads :
          /\ runs[t].sent <= Cardinality(runs[t].snap)
          /\ runs[t].bid \in DOMAIN broadcasts =>
                broadcasts[runs[t].bid].sent_count <= Cardinality(runs[t].snap)
    /\ \A i \in DOMAIN broadcasts :
          RunsOf(i) = {} => broadcasts[i].sent_count = 0

\* a user was saved after the snapshot, and the run delivered to its snapshot
C5_Witness ==
    \E t \in Threads :
        /\ runs[t].pc = "done"
        /\ runs[t].snap # {}
        /\ users \ runs[t].snap # {}
        /\ broadcasts[runs[t].bid].sent_count = Cardinality(runs[t].snap)

(***************************************************************************)
(* C6.  Every row of broadcasts has its thread started exactly once:       *)
(* never twice, and once the handler that inserted it has ended, once.     *)
(* When reply_text raises at line 534 the handler ends before line 536     *)
(* and the row is left without a thread: TLC refutes this.                 *)
(***************************************************************************)
C6_RunStartedExactlyOnce ==
    \A i \in DOMAIN broadcasts :
        /\ Cardinality(RunsOf(i)) <= 1
        /\ dpc \in {"idle", "save", "insert"} => Cardinality(RunsOf(i)) = 1

(***************************************************************************)
(* C7.  The sent_count of a row is written at most once, by a run that has *)
(* processed the last recipient of its snapshot (or has an empty one); it  *)
(* has been written exactly once when the run has finished, and it never   *)
(* changes after that write.                                               *)
(***************************************************************************)
PastLoop(r) ==
    /\ r.pc = "fin"
    /\ Len(r.log) = 2 * Len(r.rows)
    /\ r.idx = Len(r.rows)

C8_RecipientsAreSnapshot ==
    \A t \in Threads :
        /\ runs[t].rows = Ascending(runs[t].snap)
        /\ AttemptedUsers(runs[t]) \subseteq runs[t].snap
        /\ runs[t].pc \in {"fin_wait", "fin", "done"} =>
              AttemptedUsers(runs[t]) = runs[t].snap

\* a user was saved while the run was delivering, and the run ended without
\* an attempt to that user
C8_Witness ==
    \E t \in Threads :
        /\ runs[t].pc = "done"
        /\ runs[t].snap # {}
        /\ \E u \in users \ runs[t].snap : u \notin AttemptedUsers(runs[t])

(***************************************************************************)
(* C9.  In the log of a run every delivery attempt, failed or not, is      *)
(* followed by one pacing wait before the next attempt: attempts and waits *)
(* alternate, and a run that is about to send has waited after its last    *)
(* attempt.                                                                *)
(***************************************************************************)
C9_PacingAfterEveryAttempt ==
    \A t \in Threads :
        /\ \A i \in DOMAIN runs[t].log :
              IF i % 2 = 1 THEN runs[t].log[i].e # "sleep"
              ELSE runs[t].log[i].e = "sleep" /\ runs[t].log[i].u = runs[t].log[i - 1].u
        /\ runs[t].pc = "send" => Len(runs[t].log) % 2 = 0

\* a failed attempt, its wait, and then the next attempt
C9_Witness ==
    \E t \in Threads :
        /\ Len(runs[t].log) >= 3
        /\ runs[t].log[1].e = "fail"
        /\ runs[t].log[2].e = "sleep"
        /\ runs[t].log[3].e # "sleep"

C11_RunFailuresCaught == \A t \in Threads : runs[t].pc # "crashed"

(***************************************************************************)
(* C12.  With several runs in progress at once, every finished run's row   *)
(* holds that run's own number of successful sends, written once, and the  *)
(* step in which a run writes its row leaves every other row as it was.    *)
(***************************************************************************)
C12_OwnTallyPerJob ==
    /\ [](\A t \in Threads :
             runs[t].pc = "done" =>
                /\ runs[t].bid \in DOMAIN broadcasts
                /\ broadcasts[runs[t].bid].sent_count = Successes(runs[t])
                /\ broadcasts[runs[t].bid].nwrites = 1
                /\ \A o \in Threads \ {t} : runs[o].bid # runs[t].bid)
    /\ [][ \A t \in Threads :
             (runs[t].pc = "fin" /\ runs'[t].pc = "done") =>
                \A i \in DOMAIN broadcasts :
                    i # runs[t].bid => broadcasts'[i] = broadcasts[i] ]_vars

\* two finished runs that overlapped (the thread started second read the
\* users table before the one started first did) with different tallies
C12_Witness ==
    /\ Len(runs) >= 2
    /\ runs[1].pc = "done" /\ runs[2].pc = "done"
    /\ runs[2].snap # runs[1].snap /\ runs[2].snap \subseteq runs[1].snap
    /\ Successes(runs[1]) # Successes(runs[2])
    /\ Successes(runs[2]) > 0
    /\ broadcasts[runs[1].bid].sent_count = Successes(runs[1])
    /\ broadcasts[runs[2].bid].sent_count = Successes(runs[2])

(***************************************************************************)
(* C13.  The text a run sends is the text stored in its row, that is the   *)
(* payload cut to 4000 characters.  Line 536 hands the thread btext, not   *)
(* btext[:4000]: for a payload of 4001 characters the recipients get all   *)
(* 4001 while the row holds 4000: TLC refutes this.                        *)
(***************************************************************************)
C13_SentTextIsStoredText ==
    \A t \in Threads :
        (Attempts(runs[t]) # <<>> /\ runs[t].bid \in DOMAIN broadcasts) =>
            runs[t].text = broadcasts[runs[t].bid].text

(***************************************************************************)
(* C14.  A run that is sending or in its pacing wait does not hold         *)
(* DB_LOCK: a run holds it only inside its SELECT and UPDATE blocks, so    *)
(* whenever the dispatcher is between handlers and no run is inside one of *)
(* those blocks the lock is free for save_user and for the INSERT.         *)
(***************************************************************************)
C14_NoLockWhileSending ==
    /\ \A t \in Threads :
          /\ runs[t].pc \in {"send", "sleep"} => lock # RunThread(t)
          /\ lock = RunThread(t) => runs[t].pc \in {"snap", "fin"}
    /\ (dpc \in {"idle", "denied"} /\ \A t \in Threads : runs[t].pc \notin {"snap", "fin"})
          => lock = Free

\* save_user holds the lock while a run is in its pacing wait
C14_Witness ==
    /\ dpc = "save"
    /\ lock = Disp
    /\ \E t \in Threads : runs[t].pc = "sleep"
    /\ \E t \in Threads : runs[t].pc = "send"

(***************************************************************************)
(* C15.  Mutual exclusion on the store: at most one thread is inside a     *)
(* with DB_LOCK block, it is the holder of the lock, and every step that   *)
(* changes the users table or the broadcasts table is the step of the      *)
(* thread that holds the lock, inside such a block.                        *)
(***************************************************************************)
InSection ==
    (IF dpc \in {"save", "insert"} THEN {Disp} ELSE {})
       \cup { RunThread(t) : t \in { x \in Threads : runs[x].pc \in {"snap", "fin"} } }

C15_StoreMutualExclusion ==
    /\ [](/\ Cardinality(InSection) <= 1
          /\ InSection = IF lock = Free THEN {} ELSE {lock})
    /\ [][ /\ users' # users => (lock = Disp /\ dpc = "save" /\ lock' = Free)
           /\ broadcasts' # broadcasts =>
                 /\ lock' = Free
                 /\ \/ lock = Disp /\ dpc = "insert"
                    \/ \E t \in Threads :
                          lock = RunThread(t) /\ runs[t].pc = "fin" /\ runs'[t].pc = "done"
         ]_vars

\* one run is inside its UPDATE block while the other run waits for the lock
C15_Witness ==
    \E t \in Threads, o \in Threads :
        /\ t # o
        /\ runs[t].pc = "fin" /\ lock = RunThread(t)
        /\ runs[o].pc \in {"start", "fin_wait"}

(***************************************************************************)
(* C16.  From its INSERT to its run's UPDATE a row's sent_count is 0,      *)
(* whatever the run has delivered already: a row changes only in the step  *)
(* in which its run finishes.  So the row of a run that the end of the     *)
(* process killed stays at 0 for good, through restarts and later jobs.    *)
(* Checked with process termination and restart (SpecCrash).               *)
(***************************************************************************)
C16_CountZeroUntilFinalize ==
    /\ [](\A i \in DOMAIN broadcasts :
             broadcasts[i].nwrites = 0 => broadcasts[i].sent_count = 0)
    /\ [](\A t \in Threads :
             runs[t].pc \in {"start", "snap", "send", "sleep", "fin_wait", "fin", "killed"} =>
                /\ runs[t].bid \in DOMAIN broadcasts
                /\ broadcasts[runs[t].bid].sent_count = 0
                /\ broadcasts[runs[t].bid].nwrites = 0)
    /\ [][ \A i \in DOMAIN broadcasts :
             broadcasts'[i] # broadcasts[i] =>
                \E t \in RunsOf(i) : runs[t].pc = "fin" /\ runs'[t].pc = "done" ]_vars

\* the process ended after a run had delivered; it was started again and a
\* later job finished, and the first row is still at 0
C16_Witness ==
    /\ dpc = "idle"
    /\ \E t \in Threads :
          /\ runs[t].pc = "killed"
          /\ Successes(runs[t]) > 0
          /\ broadcasts[runs[t].bid].sent_count = 0
    /\ \E o \in Threads :
          /\ runs[o].pc = "done"
          /\ broadcasts[runs[o].bid].sent_count > 0

AttemptsTo(r, u) ==
    Cardinality({ k \in DOMAIN r.log : r.log[k].e # "sleep" /\ r.log[k].u = u })

(***************************************************************************)
(* C18.  Every recipient of a run's snapshot gets exactly one delivery     *)
(* attempt of that run: at no time has a recipient been attempted twice    *)
(* (a failed attempt is not retried), and once the loop has ended every    *)
(* recipient of the snapshot has been attempted once (none is skipped), so *)
(* the number of attempts of the run is the size of its snapshot.          *)
(***************************************************************************)
C18_OneAttemptPerRecipient ==
    \A t \in Threads :
        /\ \A u \in UserIds : AttemptsTo(runs[t], u) <= 1
        /\ runs[t].pc \in {"fin_wait", "fin", "done", "crashed"} =>
              /\ \A u \in runs[t].snap : AttemptsTo(runs[t], u) = 1
              /\ Len(Attempts(runs[t])) = Cardinality(runs[t].snap)
              /\ Successes(runs[t]) + Failures(runs[t]) = Len(runs[t].rows)

\* a finished run whose first attempt failed and whose second succeeded:
\* two recipients, two attempts
C18_Witness ==
    \E t \in Threads :
        /\ runs[t].pc = "done"
        /\ Cardinality(runs[t].snap) = 2
        /\ Len(Attempts(runs[t])) = 2
        /\ Attempts(runs[t])[1].e = "fail"
        /\ Attempts(runs[t])[2].e = "ok"
        /\ Attempts(runs[t])[1].u # Attempts(runs[t])[2].u

C20_NonOwnerBroadcastDenied ==
    /\ [](/\ dpc \in {"insert", "reply", "start", "return"} => duser = OWNER_ID
          /\ dpc = "denied" => (~Authorized(duser) /\ lock # Disp)
          /\ \A i \in DOMAIN broadcasts : broadcasts[i].from_user = OWNER_ID
          /\ \A t \in Threads :
                /\ runs[t].bid \in DOMAIN broadcasts
                /\ broadcasts[runs[t].bid].from_user = OWNER_ID)
    /\ [][ /\ (dpc' # dpc /\ (dpc = "denied" \/ dpc' = "denied")) =>
                UNCHANGED << users, broadcasts, lock, acked, runs, btext, bid >>
           /\ dpc = "denied" =>
                /\ users' = users
                /\ Len(broadcasts') = Len(broadcasts)
                /\ Len(runs') = Len(runs)
                /\ acked' = acked ]_vars

\* a saved user who is not the owner has sent /broadcast and is being
\* denied, while the owner's job is delivering
C20_Witness ==
    /\ dpc = "denied"
    /\ duser \in users /\ duser # OWNER_ID
    /\ Len(broadcasts) = 1 /\ Len(runs) = 1
    /\ runs[1].pc = "send"

=============================================================================
